---- MODULE Spec2Model ----
(***************************************************************************)
(* Model of the plant-shop RAG assistant: the session history manager      *)
(* (ragbase/session_history.py), the context formatter and the ask         *)
(* pipeline (ragbase/chain.py) and the retriever construction              *)
(* (ragbase/retriever.py).                                                 *)
(*                                                                         *)
(* Time is counted in hours: session_timeout = timedelta(hours=1) is 1.    *)
(* Strings are sequences of characters (one-character TLA+ strings) or of  *)
(* larger atoms where only concatenation matters.                          *)
(***************************************************************************)
EXTENDS Integers, Sequences, FiniteSets, TLC

\* ------------------------------------------------------------------ bounds
MaxTime == 2          \* the clock stops advancing here
MaxCalls == 3         \* get_session_history calls in one behaviour
MaxTurns == 1         \* messages appended to one history by direct callers
MaxLen == 2           \* characters of one passage given to format_documents
MaxDocs == 2          \* passages given to format_documents

\* session_timeout = timedelta(hours=1)
SessionTimeout == 1

SessionIds == {"s1", "s2", "s3"}
Turns == {"m1"}

VARIABLES
    now,        \* datetime.now(), in hours
    sessions,   \* SessionManager.sessions: session_id -> session dict
    heap,       \* the ChatMessageHistory objects ever created, by identity
    call,       \* the last get_session_history call: arguments, clock reads, result
    handed,     \* per session id, the handle last returned and when
    thr,        \* per thread, its position in get_session_history and its locals
    fmt,        \* format_documents: its argument and its result
    qa,         \* qa_chain of app.py: the retriever create_chain was given
    startup,    \* what create_retriever met: configuration, failures, warnings printed
    req         \* per request, the position of its ask_question call and its locals

vars == <<now, sessions, heap, call, handed, thr, fmt, qa, startup, req>>

Threads == {"t1", "t2"}

\* a thread that is not inside get_session_history
IdleThread == [pc |-> "idle", session_id |-> "", current_time |-> 0, sweep_time |-> 0,
               expired_sessions |-> <<>>, result |-> 0]

NoCall == [seq |-> 0, session_id |-> "", current_time |-> 0, sweep_time |-> 0,
           history |-> 0, before |-> {}]

\* format_documents not called
NoFormat == [documents |-> <<>>, called |-> FALSE, result |-> <<>>]

\* qa_chain before initialize_qa_chain
NoChain == [state |-> "none", retriever |-> <<>>]

\* create_retriever not called
NoStartup == [called |-> FALSE, env |-> <<>>, warnings |-> {}]

Requests == {"r1", "r2"}

\* a request that has not called ask_question
IdleRequest == [pc |-> "idle", question |-> <<>>, session_id |-> "",
                after |-> {}, current_time |-> 0, sweep_time |-> 0,
                message_history |-> 0, chat_history |-> <<>>, base |-> <<>>,
                prompt |-> <<>>, feed |-> <<>>, out |-> <<>>, status |-> ""]

\* ------------------------------------------------------- SessionManager
\* __init__: an empty map
InitSessions ==
    /\ now = 0
    /\ sessions = <<>>
    /\ heap = <<>>
    /\ call = NoCall
    /\ handed = <<>>
    /\ thr = [t \in Threads |-> IdleThread]

InitStore ==
    /\ InitSessions
    /\ fmt = NoFormat
    /\ qa = NoChain
    /\ startup = NoStartup
    /\ req = [r \in Requests |-> IdleRequest]

\* a slip for C2: >= where the code has >
IsExpired_AtTimeout(session_data, current_time) ==
    current_time - session_data.last_accessed >= SessionTimeout

\* the condition of the list comprehension in _clean_expired_sessions
IsExpired(session_data, current_time) ==
    current_time - session_data.last_accessed > SessionTimeout

\* expired_sessions of _clean_expired_sessions
ExpiredSessions(sess, current_time) ==
    {sid \in DOMAIN sess : IsExpired(sess[sid], current_time)}

\* a slip for C14: a sweep that deletes nothing
CleanExpiredSessions_Nothing(sess, current_time) ==
    sess

\* _clean_expired_sessions: the map with every expired session deleted
CleanExpiredSessions(sess, current_time) ==
    [sid \in (DOMAIN sess) \ ExpiredSessions(sess, current_time) |-> sess[sid]]

\* the session dict created for a previously unseen id
NewSession(history, current_time) ==
    [history |-> history, created_at |-> current_time, last_accessed |-> current_time]

\* a slip for C1: the branch taken as if the id were never there
CreateOrUpdate_AlwaysCreate(sess, session_id, history, current_time) ==
    [s \in (DOMAIN sess) \cup {session_id} |->
        IF s = session_id THEN NewSession(history, current_time) ELSE sess[s]]

\* "Create or update session": the map after the if/else of get_session_history
CreateOrUpdate(sess, session_id, history, current_time) ==
    IF session_id \notin DOMAIN sess
    THEN sess @@ (session_id :> NewSession(history, current_time))
    ELSE [sess EXCEPT ![session_id].last_accessed = current_time]

\* get_session_history run to completion by one caller (no other caller in
\* between).  current_time is read first, the sweep reads the clock again.
GetSessionHistoryAt(session_id, current_time, sweep_time) ==
    LET cleaned == CleanExpiredSessions(sessions, sweep_time)
        fresh == Len(heap) + 1
        after == CreateOrUpdate(cleaned, session_id, fresh, current_time)
    IN  /\ sessions' = after
        /\ heap' = IF after[session_id].history = fresh THEN Append(heap, <<>>) ELSE heap
        /\ call' = [seq |-> call.seq + 1, session_id |-> session_id,
                    current_time |-> current_time, sweep_time |-> sweep_time,
                    history |-> after[session_id].history, before |-> DOMAIN sessions]
        /\ handed' = [s \in (DOMAIN handed) \cup {session_id} |->
                        IF s = session_id
                        THEN [history |-> after[session_id].history, at |-> current_time]
                        ELSE handed[s]]
        /\ now' = sweep_time

\* the two clock reads of one call: the second is not before the first
ClockReads == {t \in {now, now + 1} : t <= MaxTime}

GetSessionHistory(session_id) ==
    /\ call.seq < MaxCalls
    /\ \E sweep_time \in ClockReads : GetSessionHistoryAt(session_id, now, sweep_time)

\* a caller holding a returned handle appends a message to it (every object
\* of the heap was returned to the caller that created it)
AddMessage(h, m) ==
    /\ h \in 1..Len(heap)
    /\ Len(heap[h]) < MaxTurns
    /\ heap' = [heap EXCEPT ![h] = Append(@, m)]
    /\ UNCHANGED <<now, sessions, call, handed>>

\* the wall clock advances
Tick ==
    /\ now < MaxTime
    /\ now' = now + 1
    /\ UNCHANGED <<sessions, heap, call, handed>>

NextStore ==
    \/ \E s \in SessionIds : GetSessionHistory(s) /\ UNCHANGED <<thr, fmt, qa, startup, req>>
    \/ \E h \in 1..Len(heap), m \in Turns : AddMessage(h, m) /\ UNCHANGED <<thr, fmt, qa, startup, req>>
    \/ Tick /\ UNCHANGED <<thr, fmt, qa, startup, req>>

SpecStore == InitStore /\ [][NextStore]_vars

\* a step that is a completed get_session_history call
IsCall == call'.seq # call.seq

\* C1: a get_session_history(s) call whose sweep runs no later than the
\* timeout after the previous call for s returns the history object that
\* call returned, with everything appended to it since, whatever ids were
\* accessed in between.
C1_SessionIdentity ==
    [][(/\ IsCall
        /\ call'.session_id \in DOMAIN handed
        /\ call'.sweep_time - handed[call'.session_id].at <= SessionTimeout)
       => (/\ call'.history = handed[call'.session_id].history
           /\ heap'[call'.history] = heap[handed[call'.session_id].history])]_vars

\* s1 created first, s2 accessed in between, a turn appended through the first
\* handle, then s1 accessed again an hour after its first access
C1_Witness ==
    /\ call.seq = 3 /\ call.session_id = "s1" /\ call.history = 1
    /\ call.current_time = SessionTimeout
    /\ "s1" \in DOMAIN sessions /\ sessions["s1"].created_at = 0
    /\ "s2" \in DOMAIN sessions /\ sessions["s2"].history = 2
    /\ heap[1] # <<>>

\* C2: the sweep of a get_session_history(s) call removes every other
\* session whose staleness at the sweep's clock read is strictly greater
\* than the timeout and leaves every other session untouched.
C2_ExpirySweep ==
    [][IsCall =>
        \A x \in (DOMAIN sessions) \ {call'.session_id} :
            IF call'.sweep_time - sessions[x].last_accessed > SessionTimeout
            THEN x \notin DOMAIN sessions'
            ELSE x \in DOMAIN sessions' /\ sessions'[x] = sessions[x]]_vars

\* an access to s3 swept s1 (two hours stale) and kept s2 (exactly one hour stale)
C2_Witness ==
    /\ call.session_id = "s3"
    /\ {"s1", "s2"} \subseteq call.before
    /\ "s1" \notin DOMAIN sessions
    /\ "s2" \in DOMAIN sessions
    /\ call.sweep_time - sessions["s2"].last_accessed = SessionTimeout

\* the session s is stale beyond the timeout at the sweep of the call this
\* step completes
StaleAtSweep(s) ==
    /\ s \in DOMAIN sessions
    /\ call'.sweep_time - sessions[s].last_accessed > SessionTimeout

\* C14: a get_session_history(s) call made when s itself is stale beyond the
\* timeout returns a fresh empty history (a new object, none of the old turns)
\* with created_at and last_accessed set to the call's current time; a session
\* enters the map only by an access to it, changes only by an access to it,
\* and leaves the map only by a sweep that finds it stale.
C14_StaleSelfAccess ==
    [][/\ (IsCall /\ StaleAtSweep(call'.session_id))
            => (/\ call'.history \notin 1..Len(heap)
                /\ call'.history # sessions[call'.session_id].history
                /\ heap'[call'.history] = <<>>
                /\ sessions'[call'.session_id] =
                        NewSession(call'.history, call'.current_time))
       /\ \A s \in SessionIds :
            /\ (s \notin DOMAIN sessions /\ s \in DOMAIN sessions')
                    => (/\ IsCall /\ call'.session_id = s
                        /\ sessions'[s] = NewSession(call'.history, call'.current_time)
                        /\ heap'[call'.history] = <<>>)
            /\ (s \in DOMAIN sessions /\ s \in DOMAIN sessions'
                    /\ sessions'[s] # sessions[s])
                    => (/\ IsCall /\ call'.session_id = s
                        /\ sessions'[s].last_accessed = call'.current_time
                        /\ \/ StaleAtSweep(s)
                           \/ /\ sessions'[s].history = sessions[s].history
                              /\ sessions'[s].created_at = sessions[s].created_at)
            /\ (s \in DOMAIN sessions /\ s \notin DOMAIN sessions')
                    => (IsCall /\ call'.session_id # s /\ StaleAtSweep(s))]_vars

\* s1 created at time 0 and given a turn, then accessed again two hours later:
\* the call returned a second, empty object and the old one kept its turn
C14_Witness ==
    /\ call.session_id = "s1" /\ call.before = {"s1"}
    /\ call.history = 2 /\ heap[2] = <<>> /\ heap[1] # <<>>
    /\ call.sweep_time = 2
    /\ sessions["s1"] = NewSession(2, call.current_time)

\* ------------------------------------------- SessionManager under threads
\* get_session_history has no lock: callers on different threads interleave
\* between its statements.  Each action below is one statement of one thread.

\* the ids of a set of sessions in the order the dict iterates them (insertion
\* order; a session's history object is allocated when the session is inserted)
RECURSIVE InDictOrder(_, _)
InDictOrder(sess, ids) ==
    IF ids = {} THEN <<>>
    ELSE LET first == CHOOSE s \in ids : \A o \in ids : sess[s].history <= sess[o].history
         IN  <<first>> \o InDictOrder(sess, ids \ {first})

\* line 11: current_time = datetime.now()
T_Call(t, session_id) ==
    /\ thr[t].pc = "idle"
    /\ call.seq < MaxCalls
    /\ call' = [call EXCEPT !.seq = @ + 1]
    /\ thr' = [thr EXCEPT ![t] = [IdleThread EXCEPT !.pc = "clean", !.session_id = session_id,
                                                   !.current_time = now]]
    /\ UNCHANGED <<now, sessions, heap, handed, fmt, qa, startup, req>>

\* lines 29-33: the sweep reads the clock and collects the expired ids
T_Scan(t) ==
    /\ thr[t].pc = "clean"
    /\ thr' = [thr EXCEPT ![t].pc = "delete", ![t].sweep_time = now,
                          ![t].expired_sessions =
                              InDictOrder(sessions, ExpiredSessions(sessions, now))]
    /\ UNCHANGED <<now, sessions, heap, call, handed, fmt, qa, startup, req>>

\* lines 34-35: one iteration of the deleting loop; del raises KeyError for an
\* id that is no longer in the map
T_Delete(t) ==
    /\ thr[t].pc = "delete"
    /\ IF thr[t].expired_sessions = <<>>
       THEN /\ thr' = [thr EXCEPT ![t].pc = "check"]
            /\ UNCHANGED sessions
       ELSE LET sid == Head(thr[t].expired_sessions)
            IN  IF sid \in DOMAIN sessions
                THEN /\ sessions' = [s \in (DOMAIN sessions) \ {sid} |-> sessions[s]]
                     /\ thr' = [thr EXCEPT ![t].expired_sessions = Tail(@)]
                ELSE /\ thr' = [thr EXCEPT ![t].pc = "raised"]
                     /\ UNCHANGED sessions
    /\ UNCHANGED <<now, heap, call, handed, fmt, qa, startup, req>>

\* line 17: if session_id not in self.sessions
T_Check(t) ==
    /\ thr[t].pc = "check"
    /\ thr' = [thr EXCEPT ![t].pc =
                  IF thr[t].session_id \notin DOMAIN sessions THEN "create" ELSE "update"]
    /\ UNCHANGED <<now, sessions, heap, call, handed, fmt, qa, startup, req>>

\* lines 18-22: a new ChatMessageHistory stored under session_id, whatever
\* is stored there by now
T_Create(t) ==
    /\ thr[t].pc = "create"
    /\ heap' = Append(heap, <<>>)
    /\ sessions' = [s \in (DOMAIN sessions) \cup {thr[t].session_id} |->
                       IF s = thr[t].session_id
                       THEN NewSession(Len(heap) + 1, thr[t].current_time)
                       ELSE sessions[s]]
    /\ thr' = [thr EXCEPT ![t].pc = "return"]
    /\ UNCHANGED <<now, call, handed, fmt, qa, startup, req>>

\* line 24: self.sessions[session_id]['last_accessed'] = current_time
T_Update(t) ==
    /\ thr[t].pc = "update"
    /\ IF thr[t].session_id \in DOMAIN sessions
       THEN /\ sessions' = [sessions EXCEPT
                               ![thr[t].session_id].last_accessed = thr[t].current_time]
            /\ thr' = [thr EXCEPT ![t].pc = "return"]
       ELSE /\ thr' = [thr EXCEPT ![t].pc = "raised"]
            /\ UNCHANGED sessions
    /\ UNCHANGED <<now, heap, call, handed, fmt, qa, startup, req>>

\* line 26: return self.sessions[session_id]['history']
T_Return(t) ==
    /\ thr[t].pc = "return"
    /\ thr' = IF thr[t].session_id \in DOMAIN sessions
              THEN [thr EXCEPT ![t].pc = "done",
                               ![t].result = sessions[thr[t].session_id].history]
              ELSE [thr EXCEPT ![t].pc = "raised"]
    /\ UNCHANGED <<now, sessions, heap, call, handed, fmt, qa, startup, req>>

\* the caller goes on; the thread may serve another request
T_Finish(t) ==
    /\ thr[t].pc \in {"done", "raised"}
    /\ thr' = [thr EXCEPT ![t] = IdleThread]
    /\ UNCHANGED <<now, sessions, heap, call, handed, fmt, qa, startup, req>>

NextThreads ==
    \/ \E t \in Threads, s \in SessionIds : T_Call(t, s)
    \/ \E t \in Threads : T_Scan(t)
    \/ \E t \in Threads : T_Delete(t)
    \/ \E t \in Threads : T_Check(t)
    \/ \E t \in Threads : T_Create(t)
    \/ \E t \in Threads : T_Update(t)
    \/ \E t \in Threads : T_Return(t)
    \/ \E t \in Threads : T_Finish(t)
    \/ Tick /\ UNCHANGED <<thr, fmt, qa, startup, req>>

SpecThreads == InitStore /\ [][NextThreads]_vars

\* two completed calls lie in one timeout window: neither sweep ran later
\* than the timeout after the other call's access
SameWindow(a, b) ==
    /\ thr[a].sweep_time - thr[b].current_time <= SessionTimeout
    /\ thr[b].sweep_time - thr[a].current_time <= SessionTimeout

\* C3: callers of get_session_history for the same session id within one
\* timeout window all hold the same history object, also when their calls
\* interleave on a previously unseen id (the session is created once).
C3_ExactlyOnceCreation ==
    \A a \in Threads, b \in Threads :
        (/\ thr[a].pc = "done" /\ thr[b].pc = "done"
         /\ thr[a].session_id = thr[b].session_id
         /\ SameWindow(a, b))
        => thr[a].result = thr[b].result

\* C10: under any interleaving of get_session_history calls no call raises,
\* and a session leaves the map only when it is stale beyond the timeout at
\* that moment.
C10_SafeUnderConcurrency ==
    [][/\ \A t \in Threads : thr'[t].pc # "raised"
       /\ \A s \in (DOMAIN sessions) \ (DOMAIN sessions') :
              now - sessions[s].last_accessed > SessionTimeout]_vars

\* ------------------------------------------------------ format_documents
Whitespace == {" ", "\n"}
Structural == {"{", "}", "[", "]"}

\* str.strip(): leading and trailing whitespace removed
RECURSIVE LStrip(_)
LStrip(str) ==
    IF str # <<>> /\ Head(str) \in Whitespace THEN LStrip(Tail(str)) ELSE str

RECURSIVE RStrip(_)
RStrip(str) ==
    IF str # <<>> /\ str[Len(str)] \in Whitespace
    THEN RStrip(SubSeq(str, 1, Len(str) - 1)) ELSE str

Strip(str) == RStrip(LStrip(str))

\* a slip for C8: the characters are left in
ReSub_Nothing(str) == str

\* re.sub(r'[{}\[\]]', '', content)
ReSub(str) == SelectSeq(str, LAMBDA c : c \notin Structural)

\* the list texts: per document its cleaned content, then "---"
RECURSIVE Texts(_)
Texts(documents) ==
    IF documents = <<>> THEN <<>>
    ELSE <<ReSub(Strip(Head(documents).page_content)), <<"-", "-", "-">>>>
         \o Texts(Tail(documents))

\* sep.join(texts)
RECURSIVE Join(_, _)
Join(sep, texts) ==
    IF texts = <<>> THEN <<>>
    ELSE IF Len(texts) = 1 THEN Head(texts)
    ELSE Head(texts) \o sep \o Join(sep, Tail(texts))

FormatDocuments(documents) == Join(<<"\n">>, Texts(documents))

\* the arguments tried: every list of at most MaxDocs passages of at most
\* MaxLen characters
Alphabet == {"a", "{", "]", " "}
Contents == UNION {[1..n -> Alphabet] : n \in 0..MaxLen}
Documents == [page_content : Contents]
DocumentLists == UNION {[1..n -> Documents] : n \in 0..MaxDocs}

InitFormat ==
    /\ InitSessions
    /\ qa = NoChain
    /\ startup = NoStartup
    /\ req = [r \in Requests |-> IdleRequest]
    /\ fmt \in [documents : DocumentLists, called : {FALSE}, result : {<<>>}]

FormatCall ==
    /\ ~fmt.called
    /\ fmt' = [fmt EXCEPT !.called = TRUE, !.result = FormatDocuments(fmt.documents)]
    /\ UNCHANGED <<now, sessions, heap, call, handed, thr, qa, startup, req>>

NextFormat == FormatCall

SpecFormat == InitFormat /\ [][NextFormat]_vars

\* ------------------------------------------------------ create_retriever
\* what create_retriever meets: its vector_store argument, whether the
\* existing collection opens, Config.Retriever.USE_RERANKER and
\* USE_CHAIN_FILTER, and whether create_reranker() and
\* LLMChainFilter.from_llm(llm) raise
Envs == [vector_store : {"given", "none"}, collection_ok : BOOLEAN,
         USE_RERANKER : BOOLEAN, reranker_ok : BOOLEAN,
         USE_CHAIN_FILTER : BOOLEAN, chain_filter_ok : BOOLEAN]

RetrieverError == [ok |-> FALSE, retriever |-> <<>>, warnings |-> {}]

\* a slip for C9: the failure of an optional stage escapes to the outer
\* handler, which raises RetrieverError
OptionalStage_Escalates(made, use, stage_ok, name) ==
    IF ~made.ok \/ ~use THEN made
    ELSE IF stage_ok
         THEN [made EXCEPT !.retriever = Append(@, name)]
         ELSE RetrieverError

\* one optional stage: if configured, wrap the retriever in a
\* ContextualCompressionRetriever; if that raises, print a warning and keep
\* the retriever as it is
OptionalStage(made, use, stage_ok, name) ==
    IF ~made.ok \/ ~use THEN made
    ELSE IF stage_ok
         THEN [made EXCEPT !.retriever = Append(@, name)]
         ELSE [made EXCEPT !.warnings = @ \cup {name}]

\* lines 21-32: the vector store (opened when none is given) as a
\* similarity retriever; a failure raises RetrieverError
BaseRetriever(env) ==
    IF env.vector_store = "none" /\ ~env.collection_ok
    THEN RetrieverError
    ELSE [ok |-> TRUE, retriever |-> <<"similarity">>, warnings |-> {}]

CreateRetriever(env) ==
    OptionalStage(
        OptionalStage(BaseRetriever(env), env.USE_RERANKER, env.reranker_ok, "reranker"),
        env.USE_CHAIN_FILTER, env.chain_filter_ok, "chain_filter")

\* app.py initialize_qa_chain: create_retriever, then create_chain; a failure
\* leaves no chain
InitializeQaChain(env) ==
    /\ qa.state = "none"
    /\ LET made == CreateRetriever(env)
       IN  /\ qa' = [state |-> IF made.ok THEN "ready" ELSE "failed",
                     retriever |-> made.retriever]
           /\ startup' = [called |-> TRUE, env |-> env, warnings |-> made.warnings]
    /\ UNCHANGED <<now, sessions, heap, call, handed, thr, fmt, req>>

\* ------------------------------------------------------------ ask_question
D1 == [page_content |-> <<" ", "{", "a", "}">>]
D2 == [page_content |-> <<"[", "b", "]", " ">>]

\* what the similarity search returns (best first)
BaseResults == {<<>>, <<D1, D2>>}

\* a compressor (reranker, chain filter) returns some of the documents it is
\* given, in an order of its own
RECURSIVE SubPerms(_)
SubPerms(docs) ==
    IF docs = <<>> THEN {<<>>}
    ELSE LET rest == SubPerms(Tail(docs))
         IN  rest \cup
             UNION {{SubSeq(p, 1, i) \o <<Head(docs)>> \o SubSeq(p, i + 1, Len(p)) :
                        i \in 0..Len(p)} : p \in rest}

\* what the retriever can return when its similarity search finds base: base
\* itself, or what the compressors it is wrapped in make of it
RetrieverOutputs(retriever, base) ==
    IF Len(retriever) = 1 THEN {base} ELSE SubPerms(base)

Questions == {<<>>, <<" ">>, <<"q">>}
ChunkTexts == {<<"a">>, <<"b">>}

\* the chunk streams the model produces, whole or cut short
Generations == {<<>>, <<(<<"a">>)>>, <<(<<"b">>)>>, <<(<<"a">>), (<<"b">>)>>,
                <<(<<"b">>), (<<"a">>)>>}
Exceptions == {"RetrievalError", "GenerationError"}
AskSessionIds == {"s1"}

HumanMessage(text) == [role |-> "human", content |-> text]
AIMessage(text) == [role |-> "ai", content |-> text]

\* SYSTEM_PROMPT with {context} filled in
SystemMessage(context) ==
    [role |-> "system", content |-> <<"SYSTEM_PROMPT">> \o context \o <<"/SYSTEM_PROMPT">>]

\* ChatPromptTemplate.from_messages: system, chat_history, human question
Prompt(context, chat_history, question) ==
    <<SystemMessage(context)>> \o chat_history \o <<HumanMessage(question)>>

\* the events of the feed astream_events gives with include_names
RetrieverStart == [event |-> "on_retriever_start", name |-> "context_retriever"]
RetrieverEnd(docs) ==
    [event |-> "on_retriever_end", name |-> "context_retriever", output |-> docs]
ChainStart == [event |-> "on_chain_start", name |-> "chain_answer"]
ChainStream(text) == [event |-> "on_chain_stream", name |-> "chain_answer", chunk |-> text]
ChainEnd == [event |-> "on_chain_end", name |-> "chain_answer"]

\* what ask_question yields: a list of documents or a string
YieldList(docs) == [type |-> "list", docs |-> docs]
YieldStr(text) == [type |-> "str", text |-> text]

\* a slip for C13: no test of the event type, every event yields something
RECURSIVE Yielded_Unfiltered(_)
Yielded_Unfiltered(events) ==
    IF events = <<>> THEN <<>>
    ELSE LET event == Head(events)
         IN  (IF event.event = "on_retriever_end" THEN <<YieldList(event.output)>>
              ELSE IF event.event = "on_chain_stream" THEN <<YieldStr(event.chunk)>>
              ELSE <<YieldStr(<<>>)>>)
             \o Yielded_Unfiltered(Tail(events))

\* a slip for C4: the context is taken from the wrong event
RECURSIVE Yielded_RetrieverStart(_)
Yielded_RetrieverStart(events) ==
    IF events = <<>> THEN <<>>
    ELSE LET event == Head(events)
         IN  (IF event.event = "on_retriever_start" THEN <<YieldList(<<>>)>> ELSE <<>>)
             \o (IF event.event = "on_retriever_end" THEN <<YieldList(event.output)>> ELSE <<>>)
             \o (IF event.event = "on_chain_stream" THEN <<YieldStr(event.chunk)>> ELSE <<>>)
             \o Yielded_RetrieverStart(Tail(events))

\* the body of the async for: what one event of the feed makes it yield
RECURSIVE Yielded(_)
Yielded(events) ==
    IF events = <<>> THEN <<>>
    ELSE LET event == Head(events)
         IN  (IF event.event = "on_retriever_end" THEN <<YieldList(event.output)>> ELSE <<>>)
             \o (IF event.event = "on_chain_stream" THEN <<YieldStr(event.chunk)>> ELSE <<>>)
             \o Yielded(Tail(events))

\* the chunks streamed so far
RECURSIVE Chunks(_)
Chunks(feed) ==
    IF feed = <<>> THEN <<>>
    ELSE (IF Head(feed).event = "on_chain_stream" THEN <<Head(feed).chunk>> ELSE <<>>)
         \o Chunks(Tail(feed))

\* the output of the chain so far: the chunks streamed, concatenated
RECURSIVE Answer(_)
Answer(feed) ==
    IF feed = <<>> THEN <<>>
    ELSE (IF Head(feed).event = "on_chain_stream" THEN Head(feed).chunk ELSE <<>>)
         \o Answer(Tail(feed))

\* f"Error processing question: {str(e)}"
ErrorText(e) == <<"Error processing question: ", e>>

\* a slip for C7: the exception is not caught and leaves the generator
OnException_Propagates(r, e) ==
    [req[r] EXCEPT !.pc = "done", !.status = "raised"]

\* the except branch: the error text is yielded after what was yielded
OnException(r, e) ==
    [req[r] EXCEPT !.pc = "done", !.status = "error",
                   !.out = Append(@, YieldStr(ErrorText(e)))]

\* a slip for C5: the answer stored before the question
ExitHistory_AnswerFirst(messages, question, answer) ==
    messages \o <<AIMessage(answer), HumanMessage(question)>>

\* the on_end listener of RunnableWithMessageHistory: the question and the
\* answer appended to the history the call was given
ExitHistory(messages, question, answer) ==
    messages \o <<HumanMessage(question), AIMessage(answer)>>

\* ask_question called: astream_events starts the chain, which resolves its
\* history with get_session_history(session_id)
AskStart(r, question, session_id) ==
    /\ qa.state = "ready"
    /\ req[r].pc = "idle"
    /\ \E sweep_time \in ClockReads : GetSessionHistoryAt(session_id, now, sweep_time)
    /\ req' = [req EXCEPT ![r] = [IdleRequest EXCEPT
                  !.pc = "load", !.question = question, !.session_id = session_id,
                  !.after = {o \in Requests : req[o].pc = "done"},
                  !.current_time = call'.current_time, !.sweep_time = call'.sweep_time,
                  !.message_history = call'.history,
                  !.feed = <<ChainStart>>, !.out = Yielded(<<ChainStart>>)]]
    /\ UNCHANGED <<thr, fmt, qa, startup>>

\* load_history: the messages of the history are read for the prompt
LoadHistory(r) ==
    /\ req[r].pc = "load"
    /\ req' = [req EXCEPT ![r].pc = "retrieve",
                          ![r].chat_history = heap[req[r].message_history]]
    /\ UNCHANGED <<now, sessions, heap, call, handed, thr, fmt, qa, startup>>

\* the retriever returns; format_documents and the prompt follow
Retrieve(r, base, docs) ==
    /\ req[r].pc = "retrieve"
    /\ docs \in RetrieverOutputs(qa.retriever, base)
    /\ LET events == <<RetrieverStart, RetrieverEnd(docs)>>
       IN  req' = [req EXCEPT ![r].pc = "generate", ![r].base = base,
                      ![r].prompt = Prompt(FormatDocuments(docs), req[r].chat_history,
                                           req[r].question),
                      ![r].feed = @ \o events, ![r].out = @ \o Yielded(events)]
    /\ UNCHANGED <<now, sessions, heap, call, handed, thr, fmt, qa, startup>>

\* the model streams one more chunk
GenChunk(r, text) ==
    /\ req[r].pc = "generate"
    /\ Append(Chunks(req[r].feed), text) \in Generations
    /\ LET events == <<ChainStream(text)>>
       IN  req' = [req EXCEPT ![r].feed = @ \o events, ![r].out = @ \o Yielded(events)]
    /\ UNCHANGED <<now, sessions, heap, call, handed, thr, fmt, qa, startup>>

\* the stream ends: the history is written, the generator returns
GenEnd(r) ==
    /\ req[r].pc = "generate"
    /\ heap' = [heap EXCEPT ![req[r].message_history] =
                    ExitHistory(@, req[r].question, Answer(req[r].feed))]
    /\ req' = [req EXCEPT ![r].pc = "done", ![r].status = "ok",
                          ![r].feed = Append(@, ChainEnd),
                          ![r].out = @ \o Yielded(<<ChainEnd>>)]
    /\ UNCHANGED <<now, sessions, call, handed, thr, fmt, qa, startup>>

\* retrieval or generation raises: the except branch of ask_question
Fail(r, e) ==
    /\ \/ req[r].pc \in {"load", "retrieve"} /\ e = "RetrievalError"
       \/ req[r].pc = "generate" /\ e = "GenerationError"
    /\ req' = [req EXCEPT ![r] = OnException(r, e)]
    /\ UNCHANGED <<now, sessions, heap, call, handed, thr, fmt, qa, startup>>

\* the configuration with both optional stages switched off
PlainEnv == [vector_store |-> "given", collection_ok |-> TRUE,
             USE_RERANKER |-> FALSE, reranker_ok |-> TRUE,
             USE_CHAIN_FILTER |-> FALSE, chain_filter_ok |-> TRUE]

\* app.py after import, qa_chain = initialize_qa_chain() done, under PlainEnv;
\* requests then run concurrently on the event loop
Init ==
    /\ InitSessions
    /\ fmt = NoFormat
    /\ startup = [called |-> TRUE, env |-> PlainEnv,
                  warnings |-> CreateRetriever(PlainEnv).warnings]
    /\ qa = [state |-> "ready", retriever |-> CreateRetriever(PlainEnv).retriever]
    /\ req = [r \in Requests |-> IdleRequest]

Next ==
    \/ \E r \in Requests, q \in Questions, s \in AskSessionIds : AskStart(r, q, s)
    \/ \E r \in Requests : LoadHistory(r)
    \/ \E r \in Requests, base \in BaseResults :
            \E docs \in SubPerms(base) : Retrieve(r, base, docs)
    \/ \E r \in Requests, text \in ChunkTexts : GenChunk(r, text)
    \/ \E r \in Requests : GenEnd(r)
    \/ \E r \in Requests, e \in Exceptions : Fail(r, e)
    \/ Tick /\ UNCHANGED <<thr, fmt, qa, startup, req>>

Spec == Init /\ [][Next]_vars

\* app.py from import on, under every configuration, serving one request
NextStartup ==
    \/ \E env \in Envs : InitializeQaChain(env)
    \/ \E q \in Questions, s \in AskSessionIds : AskStart("r1", q, s)
    \/ LoadHistory("r1")
    \/ \E base \in BaseResults : \E docs \in SubPerms(base) : Retrieve("r1", base, docs)
    \/ \E text \in ChunkTexts : GenChunk("r1", text)
    \/ GenEnd("r1")
    \/ \E e \in Exceptions : Fail("r1", e)
    \/ Tick /\ UNCHANGED <<thr, fmt, qa, startup, req>>

SpecStartup == InitStore /\ [][NextStartup]_vars

\* ------------------------------------- the history write, message by message
\* create_chain gives the chain no lock of its own: the on_end listener of
\* RunnableWithMessageHistory hands [HumanMessage, AIMessage] to add_messages
\* of the history, which on the async path runs on an executor thread and
\* appends the messages one by one.  The first append of request r:
AddMessagesFirst(r) ==
    /\ req[r].pc = "generate"
    /\ heap' = [heap EXCEPT ![req[r].message_history] =
                    Append(@, ExitHistory(<<>>, req[r].question, Answer(req[r].feed))[1])]
    /\ req' = [req EXCEPT ![r].pc = "add_messages"]
    /\ UNCHANGED <<now, sessions, call, handed, thr, fmt, qa, startup>>

\* the second append; the chain ends and the generator returns
AddMessagesSecond(r) ==
    /\ req[r].pc = "add_messages"
    /\ heap' = [heap EXCEPT ![req[r].message_history] =
                    Append(@, ExitHistory(<<>>, req[r].question, Answer(req[r].feed))[2])]
    /\ req' = [req EXCEPT ![r].pc = "done", ![r].status = "ok",
                          ![r].feed = Append(@, ChainEnd),
                          ![r].out = @ \o Yielded(<<ChainEnd>>)]
    /\ UNCHANGED <<now, sessions, call, handed, thr, fmt, qa, startup>>

\* two concurrent asks whose history writes run on executor threads
NextAppend ==
    \/ \E r \in Requests, q \in Questions, s \in AskSessionIds : AskStart(r, q, s)
    \/ \E r \in Requests : LoadHistory(r)
    \/ \E r \in Requests, base \in BaseResults :
            \E docs \in SubPerms(base) : Retrieve(r, base, docs)
    \/ \E r \in Requests, text \in ChunkTexts : GenChunk(r, text)
    \/ \E r \in Requests : AddMessagesFirst(r)
    \/ \E r \in Requests : AddMessagesSecond(r)
    \/ \E r \in Requests, e \in Exceptions : Fail(r, e)
    \/ Tick /\ UNCHANGED <<thr, fmt, qa, startup, req>>

SpecAppend == Init /\ [][NextAppend]_vars

\* ------------------------------------------- a caller that stops consuming
\* astream_events(version="v2") runs the chain in a task of its own, which
\* puts the events on a queue; ask_question takes them off the queue as its
\* caller asks for the next value.  Here pc is the position of the task and
\* status that of the caller ("" while it iterates).
\* the retriever returns in the task
TaskRetrieve(r, base, docs) ==
    /\ req[r].pc = "retrieve"
    /\ docs \in RetrieverOutputs(qa.retriever, base)
    /\ req' = [req EXCEPT ![r].pc = "generate", ![r].base = base,
                  ![r].prompt = Prompt(FormatDocuments(docs), req[r].chat_history,
                                       req[r].question),
                  ![r].feed = @ \o <<RetrieverStart, RetrieverEnd(docs)>>]
    /\ UNCHANGED <<now, sessions, heap, call, handed, thr, fmt, qa, startup>>

\* the task takes one more chunk from the model
TaskChunk(r, text) ==
    /\ req[r].pc = "generate"
    /\ Append(Chunks(req[r].feed), text) \in Generations
    /\ req' = [req EXCEPT ![r].feed = Append(@, ChainStream(text))]
    /\ UNCHANGED <<now, sessions, heap, call, handed, thr, fmt, qa, startup>>

\* the model's stream ends in the task: the history is written
TaskEnd(r) ==
    /\ req[r].pc = "generate"
    /\ heap' = [heap EXCEPT ![req[r].message_history] =
                    ExitHistory(@, req[r].question, Answer(req[r].feed))]
    /\ req' = [req EXCEPT ![r].pc = "ended", ![r].feed = Append(@, ChainEnd)]
    /\ UNCHANGED <<now, sessions, call, handed, thr, fmt, qa, startup>>

\* retrieval or generation raises in the task; pc keeps the exception
TaskFail(r, e) ==
    /\ \/ req[r].pc \in {"load", "retrieve"} /\ e = "RetrievalError"
       \/ req[r].pc = "generate" /\ e = "GenerationError"
    /\ req' = [req EXCEPT ![r].pc = e]
    /\ UNCHANGED <<now, sessions, heap, call, handed, thr, fmt, qa, startup>>

\* the caller asks for the next value and ask_question yields it
NextValue(r) ==
    /\ req[r].pc # "idle" /\ req[r].status = ""
    /\ Len(req[r].out) < Len(Yielded(req[r].feed))
    /\ req' = [req EXCEPT ![r].out = Append(@, Yielded(req[r].feed)[Len(req[r].out) + 1])]
    /\ UNCHANGED <<now, sessions, heap, call, handed, thr, fmt, qa, startup>>

\* the queue is drained and the task has ended: the generator returns
Return(r) ==
    /\ req[r].pc = "ended" /\ req[r].status = ""
    /\ req[r].out = Yielded(req[r].feed)
    /\ req' = [req EXCEPT ![r].pc = "done", ![r].status = "ok"]
    /\ UNCHANGED <<now, sessions, heap, call, handed, thr, fmt, qa, startup>>

\* the queue is drained and the task has failed: the except branch
Except(r) ==
    /\ req[r].pc \in Exceptions /\ req[r].status = ""
    /\ req[r].out = Yielded(req[r].feed)
    /\ req' = [req EXCEPT ![r] = OnException(r, req[r].pc)]
    /\ UNCHANGED <<now, sessions, heap, call, handed, thr, fmt, qa, startup>>

\* the caller, suspended at a yield, stops consuming or closes the
\* generator: ask_question has no finally and catches only Exception
Abandon(r) ==
    /\ req[r].pc \notin {"idle", "done"} /\ req[r].status = ""
    /\ req[r].out # <<>>
    /\ req' = [req EXCEPT ![r].status = "abandoned"]
    /\ UNCHANGED <<now, sessions, heap, call, handed, thr, fmt, qa, startup>>

\* the abandoned generators are finalized and the task, if it still runs,
\* is cancelled
TaskCancel(r) ==
    /\ req[r].status = "abandoned"
    /\ req[r].pc \in {"load", "retrieve", "generate"}
    /\ req' = [req EXCEPT ![r].pc = "cancelled"]
    /\ UNCHANGED <<now, sessions, heap, call, handed, thr, fmt, qa, startup>>

\* one ask whose caller may abandon it
NextAbandon ==
    \/ \E q \in Questions, s \in AskSessionIds : AskStart("r1", q, s)
    \/ LoadHistory("r1")
    \/ \E base \in BaseResults : \E docs \in SubPerms(base) : TaskRetrieve("r1", base, docs)
    \/ \E text \in ChunkTexts : TaskChunk("r1", text)
    \/ TaskEnd("r1")
    \/ \E e \in Exceptions : TaskFail("r1", e)
    \/ NextValue("r1")
    \/ Return("r1")
    \/ Except("r1")
    \/ Abandon("r1")
    \/ TaskCancel("r1")
    \/ Tick /\ UNCHANGED <<thr, fmt, qa, startup, req>>

SpecAbandon == Init /\ [][NextAbandon]_vars

\* ------------------------------------------------------------- properties
\* the texts of yielded strings, concatenated
RECURSIVE ConcatText(_)
ConcatText(items) ==
    IF items = <<>> THEN <<>> ELSE Head(items).text \o ConcatText(Tail(items))

\* the events of the feed a caller is to see, as ask_question values
Deliverable(feed) ==
    LET kept == SelectSeq(feed, LAMBDA e : e.event \in {"on_retriever_end", "on_chain_stream"})
    IN  [i \in 1..Len(kept) |->
            IF kept[i].event = "on_retriever_end"
            THEN [type |-> "list", docs |-> kept[i].output]
            ELSE [type |-> "str", text |-> kept[i].chunk]]

\* request r ends successfully in this step
Completes(r) == req[r].pc # "done" /\ req'[r].pc = "done" /\ req'[r].status = "ok"

\* C4: a successful ask yields one list of passages (the retriever's, in its
\* order) and then only answer chunks, in generation order, and the chunks
\* concatenated are the assistant message appended to the history.
C4_EventOrdering ==
    [][\A r \in Requests : Completes(r) =>
        LET out == req'[r].out
            messages == heap'[req'[r].message_history]
        IN  /\ Len(out) >= 1
            /\ out[1].type = "list"
            /\ \A i \in 2..Len(out) : out[i].type = "str"
            /\ out = Deliverable(req'[r].feed)
            /\ messages[Len(messages)] =
                   [role |-> "ai", content |-> ConcatText(Tail(out))]]_vars

\* an ask that ended well after two passages and two chunks
C4_Witness ==
    \E r \in Requests :
        /\ req[r].pc = "done" /\ req[r].status = "ok"
        /\ Len(req[r].out) = 3
        /\ req[r].out[1] = [type |-> "list", docs |-> <<D1, D2>>]
        /\ req[r].out[2].text # req[r].out[3].text

\* C5: when an ask on a fresh session has completed and a second ask on the
\* same session starts afterwards, its sweep no later than the timeout after
\* the first ask's access, and completes, the history holds exactly
\* human(q1), assistant(a1), human(q2), assistant(a2), and the second prompt
\* replayed human(q1), assistant(a1) before q2.
C5_HistoryReplay ==
    \A a \in Requests, b \in Requests :
        (/\ req[a].pc = "done" /\ req[a].status = "ok"
         /\ req[b].pc = "done" /\ req[b].status = "ok"
         /\ a \in req[b].after
         /\ req[a].session_id = req[b].session_id
         /\ req[a].chat_history = <<>>
         /\ req[b].sweep_time - req[a].current_time <= SessionTimeout)
        => LET first == <<[role |-> "human", content |-> req[a].question],
                         [role |-> "ai", content |-> ConcatText(Tail(req[a].out))]>>
               second == <<[role |-> "human", content |-> req[b].question],
                          [role |-> "ai", content |-> ConcatText(Tail(req[b].out))]>>
           IN  /\ req[b].message_history = req[a].message_history
               /\ heap[req[b].message_history] = first \o second
               /\ Len(req[b].prompt) = 4
               /\ SubSeq(req[b].prompt, 2, 4) = Append(first, second[1])

\* two asks in a row on one session, the second an hour after the first,
\* with different answers
C5_Witness ==
    /\ req["r1"].pc = "done" /\ req["r1"].status = "ok"
    /\ req["r2"].pc = "done" /\ req["r2"].status = "ok"
    /\ "r1" \in req["r2"].after
    /\ req["r2"].current_time - req["r1"].current_time = SessionTimeout
    /\ Len(heap[req["r2"].message_history]) = 4
    /\ heap[req["r2"].message_history][2] # heap[req["r2"].message_history][4]
    /\ heap[req["r2"].message_history][2].content # <<>>

\* a question that is empty after trimming
IsBlank(question) == \A i \in 1..Len(question) : question[i] \in Whitespace

IsErrorText(item) ==
    item.type = "str" /\ item.text # <<>> /\ item.text[1] = "Error processing question: "

\* C6: an ask with an empty or whitespace-only question yields a single
\* error event, runs no retrieval and no generation, and leaves the history
\* of its session as it was.
C6_BlankQuestionRejected ==
    \A r \in Requests :
        (req[r].pc = "done" /\ IsBlank(req[r].question))
        => /\ Len(req[r].out) = 1
           /\ IsErrorText(req[r].out[1])
           /\ \A i \in 1..Len(req[r].feed) :
                  req[r].feed[i].event \notin {"on_retriever_end", "on_chain_stream"}
           /\ \A i \in 1..Len(heap[req[r].message_history]) :
                  heap[req[r].message_history][i] #
                      [role |-> "human", content |-> req[r].question]

\* C7: an ask in which retrieval or generation fails does not raise: what
\* it yields is what was deliverable before the failure, in order, followed
\* by exactly one error text, which is its last event.
C7_ErrorsAsData ==
    \A r \in Requests :
        (req[r].pc = "done" /\ req[r].status # "ok")
        => LET out == req[r].out
           IN  /\ req[r].status = "error"
               /\ Len(out) >= 1
               /\ IsErrorText(out[Len(out)])
               /\ SubSeq(out, 1, Len(out) - 1) = Deliverable(req[r].feed)
               /\ \A i \in 1..(Len(out) - 1) : ~IsErrorText(out[i])

\* a generation that failed mid-stream, after the passages and one chunk
C7_Witness ==
    \E r \in Requests :
        /\ req[r].pc = "done" /\ req[r].status = "error"
        /\ Len(req[r].out) = 3
        /\ req[r].out[1].type = "list"
        /\ req[r].out[3].text = <<"Error processing question: ", "GenerationError">>

\* what request r's feed gained in this step, and what r yielded in it
NewEvents(r) == SubSeq(req'[r].feed, Len(req[r].feed) + 1, Len(req'[r].feed))
NewYields(r) == SubSeq(req'[r].out, Len(req[r].out) + 1, Len(req'[r].out))

\* the except branch of request r runs in this step
Excepts(r) == req[r].status # "error" /\ req'[r].status = "error"

\* C13: step by step, ask_question yields for each on_retriever_end event of
\* the feed its documents and for each on_chain_stream event its chunk text,
\* unchanged and in feed order; an event of any other kind yields nothing,
\* and nothing is yielded that is not one of these, but for the error text
\* of the except branch.
C13_PassThrough ==
    [][\A r \in Requests :
        /\ SubSeq(req'[r].feed, 1, Len(req[r].feed)) = req[r].feed
        /\ SubSeq(req'[r].out, 1, Len(req[r].out)) = req[r].out
        /\ IF Excepts(r)
           THEN NewEvents(r) = <<>> /\ Len(NewYields(r)) = 1 /\ IsErrorText(NewYields(r)[1])
           ELSE NewYields(r) = Deliverable(NewEvents(r))]_vars

\* a feed of six events of five kinds, of which the three of the two
\* passed-through kinds were yielded, in feed order
C13_Witness ==
    \E r \in Requests :
        /\ req[r].pc = "done" /\ req[r].status = "ok"
        /\ [i \in 1..Len(req[r].feed) |-> req[r].feed[i].event] =
               <<"on_chain_start", "on_retriever_start", "on_retriever_end",
                 "on_chain_stream", "on_chain_stream", "on_chain_end">>
        /\ req[r].out = <<YieldList(req[r].feed[3].output),
                          YieldStr(req[r].feed[4].chunk), YieldStr(req[r].feed[5].chunk)>>
        /\ req[r].feed[3].output = <<D1, D2>>
        /\ req[r].feed[4].chunk # req[r].feed[5].chunk

\* the turns of request r: its question, then its whole answer
PairOf(r) ==
    <<[role |-> "human", content |-> req[r].question],
      [role |-> "ai", content |-> ConcatText(Tail(req[r].out))]>>

\* a and b ran concurrently: neither had ended when the other started
Concurrent(a, b) == a # b /\ a \notin req[b].after /\ b \notin req[a].after

\* C11: when two asks that were given the same (fresh) history object run
\* concurrently and both complete, the history is the pair of one followed
\* by the pair of the other: each pair whole and adjacent, none interleaved
\* with the other, no turn lost.
C11_SerializedAppends ==
    \A a \in Requests, b \in Requests :
        (/\ Concurrent(a, b)
         /\ req[a].pc = "done" /\ req[a].status = "ok"
         /\ req[b].pc = "done" /\ req[b].status = "ok"
         /\ req[a].message_history = req[b].message_history)
        => heap[req[a].message_history] \in
               {PairOf(a) \o PairOf(b), PairOf(b) \o PairOf(a)}

\* C12: once the caller has abandoned an ask, the request takes no further
\* chunk from the model (its feed stops growing) and does not mutate the
\* history it was given: no human or assistant turn is appended for it.
C12_AbandonedAskStops ==
    [][\A r \in Requests :
        req[r].status = "abandoned"
        => /\ req'[r].feed = req[r].feed
           /\ heap'[req[r].message_history] = heap[req[r].message_history]]_vars

\* the similarity retriever could be built
BaseOk(env) == env.vector_store = "given" \/ env.collection_ok

\* the reranker was configured and failed to initialise
RerankerFailed(env) == BaseOk(env) /\ env.USE_RERANKER /\ ~env.reranker_ok

\* C9: a failed optional stage never makes create_retriever fail; when the
\* reranker fails to initialise the retriever is the one built so far (the
\* similarity retriever), wrapped only in the chain filter if that is
\* configured and initialises, and an ask through the bare similarity
\* retriever delivers exactly what the similarity search found.
C9_GracefulDegradation ==
    startup.called =>
        /\ BaseOk(startup.env) => qa.state = "ready"
        /\ RerankerFailed(startup.env) =>
              /\ qa.retriever =
                    IF startup.env.USE_CHAIN_FILTER /\ startup.env.chain_filter_ok
                    THEN <<"similarity", "chain_filter">> ELSE <<"similarity">>
              /\ "reranker" \in startup.warnings
              /\ \A r \in Requests :
                    (qa.retriever = <<"similarity">> /\ req[r].pc \in {"generate", "done"}
                     /\ Len(req[r].out) >= 1 /\ req[r].out[1].type = "list")
                    => req[r].out[1].docs = req[r].base

\* the reranker failed, the chain was built all the same, and an ask through
\* it ended well with the passages of the similarity search and an answer
C9_Witness ==
    /\ startup.called /\ RerankerFailed(startup.env)
    /\ qa.state = "ready"
    /\ req["r1"].pc = "done" /\ req["r1"].status = "ok"
    /\ req["r1"].out[1] = [type |-> "list", docs |-> <<D1, D2>>]
    /\ req["r1"].base = <<D1, D2>>
    /\ Len(req["r1"].out) = 3

\* the lines of a string: its pieces between line feeds
RECURSIVE Lines(_)
Lines(str) ==
    LET feeds == {i \in 1..Len(str) : str[i] = "\n"}
    IN  IF feeds = {} THEN <<str>>
        ELSE LET first == CHOOSE i \in feeds : \A j \in feeds : i <= j
             IN  <<SubSeq(str, 1, first - 1)>> \o Lines(SubSeq(str, first + 1, Len(str)))

\* what is to remain of a passage: its text from the first to the last
\* character that is not whitespace, without the structural characters
Kept(content) ==
    LET solid == {i \in 1..Len(content) : content[i] \notin Whitespace}
    IN  IF solid = {} THEN <<>>
        ELSE LET lo == CHOOSE i \in solid : \A j \in solid : i <= j
                 hi == CHOOSE i \in solid : \A j \in solid : i >= j
             IN  SelectSeq(SubSeq(content, lo, hi), LAMBDA c : c \notin {"{", "}", "[", "]"})

\* C8: format_documents gives the empty string for no passages; otherwise
\* its result holds none of { } [ ] and is, line by line, the passages in
\* input order, each followed by the delimiter line ---.
C8_FormatDocuments ==
    fmt.called =>
        LET n == Len(fmt.documents)
            lines == Lines(fmt.result)
        IN  IF n = 0 THEN fmt.result = <<>>
            ELSE /\ \A i \in 1..Len(fmt.result) : fmt.result[i] \notin {"{", "}", "[", "]"}
                 /\ Len(lines) = 2 * n
                 /\ \A k \in 1..n :
                        /\ lines[2 * k - 1] = Kept(fmt.documents[k].page_content)
                        /\ lines[2 * k] = <<"-", "-", "-">>

\* two different passages formatted, the first with a brace in it
C8_Witness ==
    /\ fmt.called
    /\ Len(fmt.documents) = 2
    /\ fmt.documents[1].page_content = <<"{", "a">>
    /\ fmt.documents[2].page_content = <<" ", "]">>
    /\ fmt.result = <<"a", "\n", "-", "-", "-", "\n", "\n", "-", "-", "-">>

====
